---- MODULE Spec2Model ----
(***************************************************************************)
(* Model of kubernetes/controllers/servicelevelobjective.go (pyrra):       *)
(* the ServiceLevelObjective reconciler, its three artifact builders, its  *)
(* three upserters and the rule translation to remote rule nodes.          *)
(*                                                                         *)
(* A time.Duration is a count of nanoseconds in 64 bits, which is written  *)
(* here in base 10000, the most significant limb first: 5 minutes are      *)
(* 300000000000 ns, the numeral <<3000, 0, 0>>.                            *)
(* Strings that the code parses are sequences of one-character strings.    *)
(***************************************************************************)
EXTENDS Integers, Sequences, FiniteSets, TLC

(* ------------------------------ bounds --------------------------------- *)
MaxInvocations == 2
MaxFaults == 1
MaxExternalWrites == 1

(* -------------------------- unsigned integers -------------------------- *)
\* A numeral is a sequence of limbs 0..Base-1, the most significant first,
\* without leading zero limbs; zero is <<0>>. It reads as the decimal number
\* with each limb after the first written with four digits.
\*
\* A value that is used several times is bound as v \in {value}, which
\* computes it once; a loop over a sequence is split in halves, which keeps
\* its evaluation shallow.
Base == 10000

Drop(s, n) == SubSeq(s, n + 1, Len(s))

\* a without leading zero limbs
Norm(a) ==
  CHOOSE r \in {IF \A i \in 1..Len(x) : x[i] = 0 THEN <<0>>
                ELSE Drop(x, CHOOSE n \in 0..(Len(x) - 1) :
                               x[n + 1] # 0 /\ \A i \in 1..n : x[i] = 0) :
                x \in {a}} : TRUE

\* the numeral of an integer n >= 0
Num(n) == Norm(<<n \div (Base * Base), (n \div Base) % Base, n % Base>>)

\* the k-th limb of a, counted from the least significant one
Limb(a, k) == IF k <= Len(a) THEN a[Len(a) + 1 - k] ELSE 0

Last(a) == Limb(a, 1)

\* a < b
Less(a, b) ==
  \E x \in {a}, y \in {b} :
    \/ Len(x) < Len(y)
    \/ /\ Len(x) = Len(y)
       /\ \E i \in 1..Len(x) : x[i] < y[i] /\ \A j \in 1..(i - 1) : x[j] = y[j]

\* one column c of a sum of limbs, with the carry of the columns below: the
\* limb it leaves and the carry (negative: the borrow) for the column above
CarryLimb(st, c) ==
  [out |-> <<(c + st.carry) % Base>> \o st.out, carry |-> (c + st.carry) \div Base]

\* CarryLimb over the columns cols, the least significant first
RECURSIVE CarryLoop(_, _)
CarryLoop(cols, st) ==
  CHOOSE r \in {IF Len(c) = 0 THEN s
                ELSE IF Len(c) = 1 THEN CarryLimb(s, c[1])
                ELSE CarryLoop(SubSeq(c, Len(c) \div 2 + 1, Len(c)),
                               CarryLoop(SubSeq(c, 1, Len(c) \div 2), s)) :
                c \in {cols}, s \in {st}} : TRUE

\* the numeral with the column sums cols, the least significant first
Carried(cols) ==
  CHOOSE r \in {Norm(<<st.carry>> \o st.out) :
                st \in {CarryLoop(cols, [out |-> <<>>, carry |-> 0])}} : TRUE

\* a + b
Add(a, b) ==
  CHOOSE r \in {Carried([k \in 1..(IF Len(x) > Len(y) THEN Len(x) ELSE Len(y)) |->
                           Limb(x, k) + Limb(y, k)]) :
                x \in {a}, y \in {b}} : TRUE

\* a - b, for a >= b
Sub(a, b) ==
  CHOOSE r \in {Carried([k \in 1..Len(x) |-> Limb(x, k) - Limb(y, k)]) :
                x \in {a}, y \in {b}} : TRUE

\* the sum of x[i] * y[j] over the limbs with i + j = k + 1 and i <= n
RECURSIVE Column(_, _, _, _)
Column(x, y, k, n) ==
  IF n = 0 THEN 0 ELSE Limb(x, n) * Limb(y, k + 1 - n) + Column(x, y, k, n - 1)

\* a * b, by columns over the limbs of the shorter factor
Mul(a, b) ==
  CHOOSE r \in {Carried([k \in 1..(Len(x) + Len(y) - 1) |->
                           Column(x, y, k, IF k < Len(x) THEN k ELSE Len(x))]) :
                x \in {IF Len(a) <= Len(b) THEN a ELSE b},
                y \in {IF Len(a) <= Len(b) THEN b ELSE a}} : TRUE

\* the largest k in 0..Base-1 with b * k <= r, built from the bits given on
\* top of k
RECURSIVE Fit(_, _, _, _)
Fit(r, b, bits, k) ==
  IF Len(bits) = 0 THEN k
  ELSE IF Len(bits) = 1
  THEN (IF k + bits[1] < Base /\ ~Less(r, Mul(b, <<k + bits[1]>>)) THEN k + bits[1] ELSE k)
  ELSE CHOOSE m \in {Fit(r, b, SubSeq(bits, Len(bits) \div 2 + 1, Len(bits)), h) :
                     h \in {Fit(r, b, SubSeq(bits, 1, Len(bits) \div 2), k)}} : TRUE

LimbBits == <<8192, 4096, 2048, 1024, 512, 256, 128, 64, 32, 16, 8, 4, 2, 1>>

\* r / b with k the quotient, appended to the quotient q
Divided(q, r, b, k) == [q |-> Append(q, k), r |-> Sub(r, Mul(b, <<k>>))]

\* one round of the long division by b: the limb c of the dividend is
\* appended to the remainder, which is divided by b
DivLimb(b, st, c) ==
  CHOOSE s \in {Divided(st.q, r, b, Fit(r, b, LimbBits, 0)) :
                r \in {Norm(Append(st.r, c))}} : TRUE

\* DivLimb over the limbs a of the dividend
RECURSIVE DivLoop(_, _, _)
DivLoop(a, b, st) ==
  CHOOSE r \in {IF Len(x) = 0 THEN s
                ELSE IF Len(x) = 1 THEN DivLimb(b, s, x[1])
                ELSE DivLoop(SubSeq(x, Len(x) \div 2 + 1, Len(x)), b,
                             DivLoop(SubSeq(x, 1, Len(x) \div 2), b, s)) :
                x \in {a}, s \in {st}} : TRUE

\* quotient and remainder of a / b, for b > 0
DivMod(a, b) ==
  CHOOSE r \in {[q |-> Norm(st.q), r |-> st.r] :
                st \in {DivLoop(a, b, [q |-> <<>>, r |-> <<0>>])}} : TRUE

\* 2^n for n in 0..12, and 8192^n = 2^(13 n) for n in 0..4
SmallPow2 == <<1, 2, 4, 8, 16, 32, 64, 128, 256, 512, 1024, 2048, 4096>>
Pow8192 ==
  << <<1>>, <<8192>>, <<6710, 8864>>, <<5497, 5581, 3888>>, <<4503, 5996, 2737, 496>> >>

\* 2^n for n in 0..64
Pow2(n) == Mul(<<SmallPow2[(n % 13) + 1]>>, Pow8192[(n \div 13) + 1])

\* 1<<63 = 9223372036854775808 and 1<<64 = 18446744073709551616
Bit63 == <<922, 3372, 368, 5477, 5808>>
Bit64 == <<1844, 6744, 737, 955, 1616>>

\* a + b in 64 bits
AddUint64(a, b) ==
  CHOOSE r \in {IF Less(sum, Bit64) THEN sum ELSE Sub(sum, Bit64) :
                sum \in {Add(a, b)}} : TRUE

(* ------------------------------- float64 ------------------------------- *)
\* A float64 is m * 2^e with m < 2^53; a rounded result has 2^52 <= m. The
\* values the parser computes stay far inside the exponent range of the
\* format.
\* 1<<52 = 4503599627370496 and 1<<53 = 9007199254740992
Bit52 == <<4503, 5996, 2737, 496>>
Bit53 == <<9007, 1992, 5474, 992>>

FloatZero == [m |-> <<0>>, e |-> 0]
FloatOne == [m |-> <<1>>, e |-> 0]
FloatTen == [m |-> <<10>>, e |-> 0]

\* the significand up = q + 1, which is halved when it has reached 2^53
Renormalized(up, e) ==
  IF up = Bit53 THEN [m |-> Bit52, e |-> e + 1] ELSE [m |-> up, e |-> e]

\* the quotient q of a division by d, of which twice is the remainder
\* doubled, as the float64 q * 2^e: rounded to the nearest, ties to even
RoundedTo(q, twice, d, e) ==
  IF Less(d, twice) \/ (twice = d /\ Last(q) % 2 = 1)
  THEN Renormalized(Add(q, <<1>>), e)
  ELSE [m |-> q, e |-> e]

Rounded(qr, d, e) ==
  CHOOSE r \in {RoundedTo(v.q, Mul(v.r, <<2>>), d, e) : v \in {qr}} : TRUE

\* one round of the scaling of n / d into 2^52 <= n / d < 2^53: n or d is
\* multiplied by 2^k where that does not overshoot
Scale(st, k) ==
  CHOOSE r \in {IF Less(up, Mul(st.d, Bit53)) THEN [n |-> up, d |-> st.d, e |-> st.e - k]
                ELSE IF ~Less(st.n, Mul(down, Bit52))
                THEN [n |-> st.n, d |-> down, e |-> st.e + k]
                ELSE st :
                up \in {Mul(st.n, Pow2(k))}, down \in {Mul(st.d, Pow2(k))}} : TRUE

\* Scale over the exponents ks
RECURSIVE ScaleLoop(_, _)
ScaleLoop(ks, st) ==
  CHOOSE r \in {IF Len(x) = 0 THEN s
                ELSE IF Len(x) = 1 THEN Scale(s, x[1])
                ELSE ScaleLoop(SubSeq(x, Len(x) \div 2 + 1, Len(x)),
                               ScaleLoop(SubSeq(x, 1, Len(x) \div 2), s)) :
                x \in {ks}, s \in {st}} : TRUE

\* the float64 nearest to (n / d) * 2^e, for 0 < n and 2^-75 <= n / d < 2^180:
\* at most two rounds with k = 64 and three with each smaller k scale n / d
Nearest(n, d, e) ==
  CHOOSE r \in {Rounded(DivMod(st.n, st.d), st.d, st.e) :
                st \in {ScaleLoop(<<64, 64, 16, 16, 16, 4, 4, 4, 1, 1, 1>>,
                                  [n |-> n, d |-> d, e |-> e])}} : TRUE

\* the float64 nearest to m * 2^e, which is m * 2^e where m < 2^53
Float64Of(m, e) ==
  CHOOSE r \in {IF Less(v, Bit53) THEN [m |-> v, e |-> e] ELSE Nearest(v, <<1>>, e) :
                v \in {m}} : TRUE

\* float64(x) of a uint64
Float64(x) == Float64Of(x, 0)

\* x * y and x / y of float64 (y # 0)
FloatMul(x, y) ==
  CHOOSE r \in {IF a.m = <<0>> \/ b.m = <<0>> THEN FloatZero
                ELSE Float64Of(Mul(a.m, b.m), a.e + b.e) :
                a \in {x}, b \in {y}} : TRUE
FloatDiv(x, y) ==
  CHOOSE r \in {IF a.m = <<0>> THEN FloatZero ELSE Nearest(a.m, b.m, a.e - b.e) :
                a \in {x}, b \in {y}} : TRUE

\* uint64(x) of a float64 x < 2^64: the integer part
Uint64(x) ==
  CHOOSE r \in {IF a.e >= 0 THEN Mul(a.m, Pow2(a.e))
                ELSE IF a.e < 0 - 53 THEN <<0>>
                ELSE DivMod(a.m, Pow2(0 - a.e)).q :
                a \in {x}} : TRUE

(* --------------------------- time.Duration ----------------------------- *)
\* a Duration: the sign and the absolute value of its nanosecond count
Duration(neg, abs) == [neg |-> neg, abs |-> abs]
ZeroDuration == Duration(FALSE, <<0>>)

\* the units of time, in nanoseconds
Nanosecond == <<1>>
Microsecond == <<1000>>
Millisecond == <<100, 0>>
Second == <<10, 0, 0>>
Minute == <<600, 0, 0>>
Hour == <<3, 6000, 0, 0>>

Digits == {"0", "1", "2", "3", "4", "5", "6", "7", "8", "9"}

DigitVal(c) ==
  CASE c = "0" -> 0 [] c = "1" -> 1 [] c = "2" -> 2 [] c = "3" -> 3
    [] c = "4" -> 4 [] c = "5" -> 5 [] c = "6" -> 6 [] c = "7" -> 7
    [] c = "8" -> 8 [] c = "9" -> 9

\* time.unitMap: unit name, as characters, to its length in nanoseconds
UnitKnown(u) ==
  u \in {<<"n", "s">>, <<"u", "s">>, <<"µ", "s">>, <<"μ", "s">>,
         <<"m", "s">>, <<"s">>, <<"m">>, <<"h">>}

UnitOf(u) ==
  CASE u = <<"n", "s">> -> Nanosecond
    [] u = <<"u", "s">> -> Microsecond
    [] u = <<"µ", "s">> -> Microsecond
    [] u = <<"μ", "s">> -> Microsecond
    [] u = <<"m", "s">> -> Millisecond
    [] u = <<"s">> -> Second
    [] u = <<"m">> -> Minute
    [] u = <<"h">> -> Hour

\* number of leading digits of s
DigitRun(s) ==
  CHOOSE n \in 0..Len(s) :
    /\ \A i \in 1..n : s[i] \in Digits
    /\ n < Len(s) => s[n + 1] \notin Digits

\* number of leading characters of s that are neither '.' nor a digit
UnitRun(s) ==
  CHOOSE n \in 0..Len(s) :
    /\ \A i \in 1..n : s[i] # "." /\ s[i] \notin Digits
    /\ n < Len(s) => (s[n + 1] = "." \/ s[n + 1] \in Digits)

\* 1<<63 / 10 and (1<<63 - 1) / 10, both 922337203685477580
Bit63Div10 == <<92, 2337, 2036, 8547, 7580>>
MaxInt64Div10 == <<92, 2337, 2036, 8547, 7580>>

\* x*10 + c for the digit character c
AppendDigit(x, c) == Add(Mul(x, <<10>>), <<DigitVal(c)>>)

\* one round of the loop of time.leadingInt; an overflow ends the loop
leadingIntDigit(st, c) ==
  IF st.err THEN st
  ELSE IF Less(Bit63Div10, st.x) THEN [x |-> <<0>>, err |-> TRUE]
  ELSE CHOOSE r \in {IF Less(Bit63, y) THEN [x |-> <<0>>, err |-> TRUE]
                     ELSE [x |-> y, err |-> FALSE] :
                     y \in {AppendDigit(st.x, c)}} : TRUE

\* leadingIntDigit over the digits ds
RECURSIVE leadingIntLoop(_, _)
leadingIntLoop(ds, st) ==
  CHOOSE r \in {IF Len(x) = 0 THEN s
                ELSE IF Len(x) = 1 THEN leadingIntDigit(s, x[1])
                ELSE leadingIntLoop(SubSeq(x, Len(x) \div 2 + 1, Len(x)),
                                    leadingIntLoop(SubSeq(x, 1, Len(x) \div 2), s)) :
                x \in {ds}, s \in {st}} : TRUE

\* time.leadingInt: the leading [0-9]* of s as a uint64; on overflow it
\* returns 0, the empty string and the error
leadingInt(s) ==
  CHOOSE r \in {[x |-> st.x, rem |-> IF st.err THEN <<>> ELSE Drop(s, DigitRun(s)),
                 err |-> st.err] :
                st \in {leadingIntLoop(SubSeq(s, 1, DigitRun(s)),
                                       [x |-> <<0>>, err |-> FALSE])}} : TRUE

\* one round of the loop of time.leadingFraction; digits past the capacity of
\* x are consumed and ignored
leadingFractionDigit(st, c) ==
  IF st.overflow THEN st
  ELSE IF Less(MaxInt64Div10, st.x) THEN [st EXCEPT !.overflow = TRUE]
  ELSE CHOOSE r \in {IF Less(Bit63, y) THEN [st EXCEPT !.overflow = TRUE]
                     ELSE [x |-> y, scale |-> FloatMul(st.scale, FloatTen),
                           overflow |-> FALSE] :
                     y \in {AppendDigit(st.x, c)}} : TRUE

\* leadingFractionDigit over the digits ds
RECURSIVE leadingFractionLoop(_, _)
leadingFractionLoop(ds, st) ==
  CHOOSE r \in {IF Len(x) = 0 THEN s
                ELSE IF Len(x) = 1 THEN leadingFractionDigit(s, x[1])
                ELSE leadingFractionLoop(SubSeq(x, Len(x) \div 2 + 1, Len(x)),
                                         leadingFractionLoop(SubSeq(x, 1, Len(x) \div 2), s)) :
                x \in {ds}, s \in {st}} : TRUE

\* time.leadingFraction: the leading [0-9]* of s as x / scale
leadingFraction(s) ==
  CHOOSE r \in {[x |-> st.x, scale |-> st.scale, rem |-> Drop(s, DigitRun(s))] :
                st \in {leadingFractionLoop(SubSeq(s, 1, DigitRun(s)),
                                            [x |-> <<0>>, scale |-> FloatOne,
                                             overflow |-> FALSE])}} : TRUE

\* the outcome of a segment that fails
InvalidSegment == [err |-> TRUE, d |-> <<0>>, rest |-> <<>>]

\* d += v
AddSegment(rest, d, v) ==
  CHOOSE r \in {IF Less(Bit63, sum) THEN InvalidSegment
                ELSE [err |-> FALSE, d |-> sum, rest |-> rest] :
                sum \in {AddUint64(d, v)}} : TRUE

\* v += uint64(float64(f) * (float64(unit) / scale)), for f > 0
AddFraction(rest, d, v, f, scale, unit) ==
  CHOOSE r \in {IF Less(Bit63, vf) THEN InvalidSegment ELSE AddSegment(rest, d, vf) :
                vf \in {Add(v, Uint64(FloatMul(Float64(f),
                                               FloatDiv(Float64(unit), scale))))}} : TRUE

\* v *= unit; the guard v > 1<<63 / unit is checked as v * unit > 1<<63
ScaleByUnit(rest, d, v, f, scale, unit) ==
  CHOOSE r \in {IF Less(Bit63, vu) THEN InvalidSegment
                ELSE IF f = <<0>> THEN AddSegment(rest, d, vu)
                ELSE AddFraction(rest, d, vu, f, scale, unit) :
                vu \in {Mul(v, unit)}} : TRUE

\* consume the unit u: the characters up to the next '.' or digit
ConsumeUnit(rest, d, v, f, scale, u) ==
  IF u = <<>> THEN InvalidSegment
  ELSE IF ~UnitKnown(u) THEN InvalidSegment
  ELSE ScaleByUnit(rest, d, v, f, scale, UnitOf(u))

\* consume (\.[0-9]*)?, given as lf; pre and post tell whether digits came
\* before and after the period
ConsumedFraction(d, v, pre, post, lf) ==
  IF ~pre /\ ~post THEN InvalidSegment
  ELSE ConsumeUnit(Drop(lf.rem, UnitRun(lf.rem)), d, v, lf.x, lf.scale,
                   SubSeq(lf.rem, 1, UnitRun(lf.rem)))

\* what leadingFraction gives for s[1:] when s has a period at its head,
\* with the number of characters that it consumed
Fraction(s) ==
  IF s # <<>> /\ Head(s) = "."
  THEN CHOOSE r \in {[x |-> lf.x, scale |-> lf.scale, rem |-> lf.rem,
                      n |-> Len(s) - 1 - Len(lf.rem)] :
                     lf \in {leadingFraction(Tail(s))}} : TRUE
  ELSE [x |-> <<0>>, scale |-> FloatOne, rem |-> s, n |-> 0]

\* consume [0-9]*, given as li
ConsumedInt(s, d, li) ==
  IF li.err THEN InvalidSegment
  ELSE CHOOSE r \in {ConsumedFraction(d, li.x, Len(li.rem) # Len(s), lf.n # 0, lf) :
                     lf \in {Fraction(li.rem)}} : TRUE

\* one round of the loop of time.ParseDuration: a segment <number><unit> at
\* the head of s is added to d, a uint64
ParseSegment(s, d) ==
  IF ~(Head(s) = "." \/ Head(s) \in Digits) THEN InvalidSegment
  ELSE CHOOSE r \in {ConsumedInt(s, d, li) : li \in {leadingInt(s)}} : TRUE

\* the segment seg parsed, the loop of time.ParseDuration goes on
RECURSIVE ParseSegments(_, _)
Continued(seg) ==
  IF seg.err THEN [err |-> TRUE, d |-> <<0>>] ELSE ParseSegments(seg.rest, seg.d)

\* the loop of time.ParseDuration over the segments
ParseSegments(s, d) ==
  IF s = <<>> THEN [err |-> FALSE, d |-> d]
  ELSE CHOOSE r \in {Continued(seg) : seg \in {ParseSegment(s, d)}} : TRUE

\* the sign applied to the parsed uint64
SignedDuration(neg, r) ==
  IF r.err THEN [err |-> TRUE, d |-> ZeroDuration]
  ELSE IF neg THEN [err |-> FALSE, d |-> Duration(r.d # <<0>>, r.d)]
  ELSE IF Less(Sub(Bit63, <<1>>), r.d) THEN [err |-> TRUE, d |-> ZeroDuration]
  ELSE [err |-> FALSE, d |-> Duration(FALSE, r.d)]

\* time.ParseDuration: the duration and whether parsing failed; a failed
\* parse returns the duration 0
ParseDuration(str) ==
  LET signed == str # <<>> /\ Head(str) \in {"-", "+"}
      neg    == signed /\ Head(str) = "-"
      s      == IF signed THEN Tail(str) ELSE str
  IN  IF s = <<"0">> THEN [err |-> FALSE, d |-> ZeroDuration]
      ELSE IF s = <<>> THEN [err |-> TRUE, d |-> ZeroDuration]
      ELSE CHOOSE r \in {SignedDuration(neg, seg) : seg \in {ParseSegments(s, <<0>>)}} : TRUE

(* ------------------------- rules and rule nodes ------------------------ *)
\* a *monitoringv1.Duration that is nil, and one that points to a string
NoFor == [set |-> FALSE, s |-> <<>>]
ForOf(chars) == [set |-> TRUE, s |-> chars]

\* monitoringv1.Rule
RecordingRule(record, expr) ==
  [Record |-> record, Alert |-> "", Expr |-> expr, For |-> NoFor,
   Labels |-> "slo", Annotations |-> ""]
AlertingRule(alert, expr, for) ==
  [Record |-> "", Alert |-> alert, Expr |-> expr, For |-> for,
   Labels |-> "slo", Annotations |-> "runbook"]

\* yamlv3.Node: the zero node, and the node SetString makes
ZeroNode == [Kind |-> "", Tag |-> "", Value |-> ""]
yamlStringNode(val) == [Kind |-> "scalar", Tag |-> "!!str", Value |-> val]

\* time.Minute * 5
DefaultFor == Duration(FALSE, Mul(Minute, Num(5)))

\* prometheusRuleToMimirRuleNode
prometheusRuleToMimirRuleNode(promRule) ==
  IF promRule.Alert # ""
  THEN LET forVal == IF promRule.For.set
                     THEN ParseDuration(promRule.For.s).d
                     ELSE DefaultFor
       IN  [Expr |-> yamlStringNode(promRule.Expr),
            Alert |-> yamlStringNode(promRule.Alert),
            Record |-> ZeroNode,
            For |-> forVal,
            Labels |-> promRule.Labels,
            Annotations |-> promRule.Annotations]
  ELSE [Expr |-> yamlStringNode(promRule.Expr),
        Alert |-> ZeroNode,
        Record |-> yamlStringNode(promRule.Record),
        For |-> ZeroDuration,
        Labels |-> promRule.Labels,
        Annotations |-> ""]

\* a translation that reads the forwarding switch the wrong way round
RECURSIVE prometheusRulesToMimirRulesInverted(_, _)
prometheusRulesToMimirRulesInverted(promRules, writeAlertingRules) ==
  IF promRules = <<>> THEN <<>>
  ELSE LET r == Head(promRules)
           rest == prometheusRulesToMimirRulesInverted(Tail(promRules), writeAlertingRules)
       IN  IF r.Alert # "" /\ writeAlertingRules
           THEN rest
           ELSE <<prometheusRuleToMimirRuleNode(r)>> \o rest

\* a translation that forwards every rule
RECURSIVE prometheusRulesToMimirRulesKeepsAll(_, _)
prometheusRulesToMimirRulesKeepsAll(promRules, writeAlertingRules) ==
  IF promRules = <<>> THEN <<>>
  ELSE <<prometheusRuleToMimirRuleNode(Head(promRules))>>
         \o prometheusRulesToMimirRulesKeepsAll(Tail(promRules), writeAlertingRules)

\* prometheusRulesToMimirRules
RECURSIVE prometheusRulesToMimirRules(_, _)
prometheusRulesToMimirRules(promRules, writeAlertingRules) ==
  IF promRules = <<>> THEN <<>>
  ELSE LET r == Head(promRules)
           rest == prometheusRulesToMimirRules(Tail(promRules), writeAlertingRules)
       IN  IF r.Alert # "" /\ ~writeAlertingRules
           THEN rest
           ELSE <<prometheusRuleToMimirRuleNode(r)>> \o rest

(* ------------------ the Objective and its collaborator ----------------- *)
ErrGroupingUnsupported == "objective with grouping is not supported"

IncreaseGroupA ==
  [Name |-> "increase",
   Rules |-> <<RecordingRule("http_requests:increase4w", "increase"),
               AlertingRule("SLOMetricAbsent", "absent", ForOf(<<"2", "m">>))>>]
BurnrateGroupA ==
  [Name |-> "burnrate",
   Rules |-> <<AlertingRule("ErrorBudgetBurn", "burn", NoFor)>>]
IncreaseGroupB ==
  [Name |-> "increase",
   Rules |-> <<RecordingRule("grpc_handled:increase2w", "increase")>>]
BurnrateGroupB ==
  [Name |-> "burnrate",
   Rules |-> <<RecordingRule("grpc_handled:burnrate5m", "rate5m"),
               AlertingRule("ErrorBudgetBurn", "burn", ForOf(<<"1", "d">>))>>]
GenericGroup ==
  [Name |-> "generic",
   Rules |-> <<RecordingRule("pyrra_objective", "0.99")>>]

BuildFaults == {"", "internal", "increase", "burnrate"}
GenericOutcomes == {"ok", "unsupported", "error"}

\* pyrrav1alpha1.ServiceLevelObjective objects: identity, the rule groups the
\* objective collaborator derives from the object, the outcome of each
\* collaborator request, and the status sub-resource
Objectives ==
  { [APIVersion |-> "pyrra.dev/v1alpha1", Kind |-> "ServiceLevelObjective",
     Name |-> g.name, Namespace |-> "team-a", UID |-> g.uid, Labels |-> "team-a-labels",
     increases |-> g.inc, burnrates |-> g.burn, generic |-> GenericGroup,
     fail |-> f, genericOutcome |-> go,
     StatusType |-> ""] :
       g \in { [name |-> "orders-availability", uid |-> "uid-1",
                inc |-> IncreaseGroupA, burn |-> BurnrateGroupA],
               [name |-> "payments-latency", uid |-> "uid-2",
                inc |-> IncreaseGroupB, burn |-> BurnrateGroupB] },
       f \in BuildFaults, go \in GenericOutcomes }

EmptyGroup == [Name |-> "", Rules |-> <<>>]

\* kubeObjective.Internal()
Internal(kubeObjective) ==
  IF kubeObjective.fail = "internal" THEN "internal objective error" ELSE ""
\* objective.IncreaseRules()
IncreaseRules(kubeObjective) ==
  IF kubeObjective.fail = "increase"
  THEN [err |-> "increase rules error", group |-> EmptyGroup]
  ELSE [err |-> "", group |-> kubeObjective.increases]
\* objective.Burnrates()
Burnrates(kubeObjective) ==
  IF kubeObjective.fail = "burnrate"
  THEN [err |-> "burn rate rules error", group |-> EmptyGroup]
  ELSE [err |-> "", group |-> kubeObjective.burnrates]
\* objective.GenericRules()
GenericRules(kubeObjective) ==
  CASE kubeObjective.genericOutcome = "ok" -> [err |-> "", group |-> kubeObjective.generic]
    [] kubeObjective.genericOutcome = "unsupported" ->
         [err |-> ErrGroupingUnsupported, group |-> EmptyGroup]
    [] OTHER -> [err |-> "generic rules error", group |-> EmptyGroup]

(* --------------------------- artifact builders ------------------------- *)
NoArtifact == [Kind |-> "none"]

\* fmt.Errorf("msg: %w", err)
Wrap(msg, err) == IF err = "" THEN "" ELSE msg \o ": " \o err

\* an owner reference that takes the Objective's name for its UID
OwnerReferencesNameAsUID(kubeObjective) ==
  << [APIVersion |-> kubeObjective.APIVersion, Kind |-> kubeObjective.Kind,
      Name |-> kubeObjective.Name, UID |-> kubeObjective.Name,
      Controller |-> TRUE] >>

OwnerReferences(kubeObjective) ==
  << [APIVersion |-> kubeObjective.APIVersion, Kind |-> kubeObjective.Kind,
      Name |-> kubeObjective.Name, UID |-> kubeObjective.UID,
      Controller |-> TRUE] >>

\* a rule-group list for which "grouping unsupported" is an error like any other
RuleSpecUnsupportedFatal(kubeObjective, genericRules) ==
  LET inc  == IncreaseRules(kubeObjective)
      burn == Burnrates(kubeObjective)
      gen  == GenericRules(kubeObjective)
      base == <<inc.group, burn.group>>
  IN  IF Internal(kubeObjective) # ""
      THEN [err |-> Wrap("failed to get objective", Internal(kubeObjective)), Groups |-> <<>>]
      ELSE IF inc.err # ""
      THEN [err |-> Wrap("failed to get increase rules", inc.err), Groups |-> <<>>]
      ELSE IF burn.err # ""
      THEN [err |-> Wrap("failed to get burn rate rules", burn.err), Groups |-> <<>>]
      ELSE IF ~genericRules THEN [err |-> "", Groups |-> base]
      ELSE IF gen.err = "" THEN [err |-> "", Groups |-> Append(base, gen.group)]
      ELSE [err |-> Wrap("failed to get generic rules", gen.err), Groups |-> <<>>]

\* the rule-group list both makeConfigMap and makePrometheusRule assemble
RuleSpec(kubeObjective, genericRules) ==
  LET inc  == IncreaseRules(kubeObjective)
      burn == Burnrates(kubeObjective)
      gen  == GenericRules(kubeObjective)
      base == <<inc.group, burn.group>>
  IN  IF Internal(kubeObjective) # ""
      THEN [err |-> Wrap("failed to get objective", Internal(kubeObjective)), Groups |-> <<>>]
      ELSE IF inc.err # ""
      THEN [err |-> Wrap("failed to get increase rules", inc.err), Groups |-> <<>>]
      ELSE IF burn.err # ""
      THEN [err |-> Wrap("failed to get burn rate rules", burn.err), Groups |-> <<>>]
      ELSE IF ~genericRules THEN [err |-> "", Groups |-> base]
      ELSE IF gen.err = "" THEN [err |-> "", Groups |-> Append(base, gen.group)]
      ELSE IF gen.err = ErrGroupingUnsupported THEN [err |-> "", Groups |-> base]
      ELSE [err |-> Wrap("failed to get generic rules", gen.err), Groups |-> <<>>]

\* yaml.Marshal of the rule spec: the error and the textual payload. The
\* marshaller fails on a value it cannot encode; a rule spec is made of
\* names, labels and expressions that are strings, which it always encodes.
YamlMarshal(groups) == [err |-> "", bytes |-> [yaml |-> groups]]

ConfigMapName(kubeObjective) == "pyrra-recording-rule-" \o kubeObjective.Name

\* makeConfigMap
makeConfigMap(name, kubeObjective, genericRules) ==
  LET rule    == RuleSpec(kubeObjective, genericRules)
      marshal == YamlMarshal(rule.Groups)
  IN  IF rule.err # "" THEN [err |-> rule.err, obj |-> NoArtifact]
      ELSE IF marshal.err # ""
      THEN [err |-> Wrap("failed to marshal recording rule", marshal.err),
            obj |-> NoArtifact]
      ELSE [err |-> "",
            obj |-> [Kind |-> "ConfigMap", APIVersion |-> "v1",
                     Name |-> name, Namespace |-> kubeObjective.Namespace,
                     Labels |-> kubeObjective.Labels,
                     OwnerReferences |-> OwnerReferences(kubeObjective),
                     Data |-> ((name \o ".rules.yaml") :> marshal.bytes),
                     ResourceVersion |-> 0]]

\* makePrometheusRule
makePrometheusRule(kubeObjective, genericRules) ==
  LET rule == RuleSpec(kubeObjective, genericRules)
  IN  IF rule.err # "" THEN [err |-> rule.err, obj |-> NoArtifact]
      ELSE [err |-> "",
            obj |-> [Kind |-> "PrometheusRule", APIVersion |-> "monitoring.coreos.com/v1",
                     Name |-> kubeObjective.Name, Namespace |-> kubeObjective.Namespace,
                     Labels |-> kubeObjective.Labels,
                     OwnerReferences |-> OwnerReferences(kubeObjective),
                     Spec |-> rule.Groups,
                     ResourceVersion |-> 0]]

\* a remote rule group that puts the burn-rate rules first
makeMimirRuleGroupBurnratesFirst(kubeObjective, genericRules, writeAlertingRules) ==
  LET inc  == IncreaseRules(kubeObjective)
      burn == Burnrates(kubeObjective)
      increasesMimirRules == prometheusRulesToMimirRules(inc.group.Rules, writeAlertingRules)
      burnratesMimirRules == prometheusRulesToMimirRules(burn.group.Rules, writeAlertingRules)
  IN  IF Internal(kubeObjective) # ""
      THEN [err |-> Wrap("failed to get objective", Internal(kubeObjective)), obj |-> NoArtifact]
      ELSE IF inc.err # ""
      THEN [err |-> Wrap("failed to get increase rules", inc.err), obj |-> NoArtifact]
      ELSE IF burn.err # ""
      THEN [err |-> Wrap("failed to get burn rate rules", burn.err), obj |-> NoArtifact]
      ELSE [err |-> "",
            obj |-> [Kind |-> "RuleGroup", Name |-> kubeObjective.Name,
                     Interval |-> Duration(FALSE, Mul(Second, Num(30))),
                     Rules |-> burnratesMimirRules \o increasesMimirRules]]

\* makeMimirRuleGroup
makeMimirRuleGroup(kubeObjective, genericRules, writeAlertingRules) ==
  LET inc  == IncreaseRules(kubeObjective)
      burn == Burnrates(kubeObjective)
      increasesMimirRules == prometheusRulesToMimirRules(inc.group.Rules, writeAlertingRules)
      burnratesMimirRules == prometheusRulesToMimirRules(burn.group.Rules, writeAlertingRules)
  IN  IF Internal(kubeObjective) # ""
      THEN [err |-> Wrap("failed to get objective", Internal(kubeObjective)), obj |-> NoArtifact]
      ELSE IF inc.err # ""
      THEN [err |-> Wrap("failed to get increase rules", inc.err), obj |-> NoArtifact]
      ELSE IF burn.err # ""
      THEN [err |-> Wrap("failed to get burn rate rules", burn.err), obj |-> NoArtifact]
      ELSE [err |-> "",
            obj |-> [Kind |-> "RuleGroup", Name |-> kubeObjective.Name,
                     Interval |-> Duration(FALSE, Mul(Second, Num(30))),
                     Rules |-> increasesMimirRules \o burnratesMimirRules]]

(* ------------------------------- state --------------------------------- *)
VARIABLES
  cfg,            \* the reconciler's fields ConfigMapMode, GenericRules, MimirWriteAlertingRules
  sloStore,       \* the stored ServiceLevelObjective, or NoArtifact once deleted
  cm,             \* the stored ConfigMap, or NoArtifact
  pr,             \* the stored PrometheusRule, or NoArtifact
  mimir,          \* the rule group held by the remote rule store, or NoArtifact
  pc,             \* position of the invocation in flight; "idle" when none is
  slo,            \* Reconcile's local copy of the fetched Objective
  kubeObjective,  \* the upserter's own copy of the Objective (passed by value)
  newArtifact,    \* newRule / newConfigMap / newRuleGroup
  log,            \* the store calls of the current (or last) invocation, in order
  result,         \* what the last invocation returned
  prev,           \* log, result and disturbance mark of the invocation before
  mark,           \* the disturbance count when the current invocation started
  invocations,    \* number of Reconcile invocations started
  faults,         \* number of injected store failures
  extWrites,      \* number of writes by another writer
  promRule,       \* input of the rule translation
  ruleNode,       \* output of the rule translation
  promRules,      \* input of the translation of a rule sequence
  mimirRules,     \* output of the translation of a rule sequence
  built           \* what an artifact builder returned

vars == <<cfg, sloStore, cm, pr, mimir, pc, slo, kubeObjective, newArtifact, log,
          result, prev, mark, invocations, faults, extWrites, promRule, ruleNode,
          promRules, mimirRules, built>>

ctlVars == <<cfg, sloStore, cm, pr, mimir, pc, slo, kubeObjective, newArtifact, log,
             result, prev, mark, invocations, faults, extWrites>>
trVars == <<promRule, ruleNode, promRules, mimirRules, built>>

(* ----------------------------- the stores ------------------------------ *)
ErrNotFound == "not found"
ErrAlreadyExists == "already exists"
ErrConflict == "conflict: the object has been modified"
ErrInvalid == "invalid: metadata.resourceVersion must be specified for an update"
ErrInjected == "store failure"

Exists(store) == store.Kind # "none"
TokenOf(store) == IF Exists(store) THEN store.ResourceVersion ELSE 0

\* the store accepts an update without revision token for built-in kinds
\* and rejects it for custom resources
AllowUnconditionalUpdate(kind) == kind = "ConfigMap"

\* the artifact without its revision token
Content(obj) == IF Exists(obj) THEN [obj EXCEPT !.ResourceVersion = 0] ELSE obj

\* r.Get: the error and the object read (the zero object on error)
StoreGet(store, fault) ==
  IF fault THEN [err |-> ErrInjected, obj |-> NoArtifact]
  ELSE IF ~Exists(store) THEN [err |-> ErrNotFound, obj |-> NoArtifact]
  ELSE [err |-> "", obj |-> store]

\* a create that reports success and stores nothing
StoreCreateLost(store, obj, fault) ==
  IF fault THEN [err |-> ErrInjected, store |-> store]
  ELSE IF Exists(store) THEN [err |-> ErrAlreadyExists, store |-> store]
  ELSE [err |-> "", store |-> store]

\* r.Create: the error and the store afterwards
StoreCreate(store, obj, fault) ==
  IF fault THEN [err |-> ErrInjected, store |-> store]
  ELSE IF Exists(store) THEN [err |-> ErrAlreadyExists, store |-> store]
  ELSE [err |-> "", store |-> [obj EXCEPT !.ResourceVersion = 1]]

\* r.Update: the error and the store afterwards
StoreUpdate(store, obj, fault) ==
  IF fault THEN [err |-> ErrInjected, store |-> store]
  ELSE IF ~Exists(store) THEN [err |-> ErrNotFound, store |-> store]
  ELSE IF obj.ResourceVersion = 0 /\ ~AllowUnconditionalUpdate(obj.Kind)
       THEN [err |-> ErrInvalid, store |-> store]
  ELSE IF obj.ResourceVersion # 0 /\ obj.ResourceVersion # store.ResourceVersion
       THEN [err |-> ErrConflict, store |-> store]
  ELSE [err |-> "", store |-> [obj EXCEPT !.ResourceVersion = store.ResourceVersion + 1]]

\* r.Status().Update: writes the status sub-resource of the given Objective
StatusUpdate(store, obj, fault) ==
  IF fault THEN [err |-> ErrInjected, store |-> store]
  ELSE IF ~Exists(store) THEN [err |-> ErrNotFound, store |-> store]
  ELSE [err |-> "", store |-> [store EXCEPT !.StatusType = obj.StatusType]]

\* r.MimirClient.CreateRuleGroup: the remote store replaces the group of that name
MimirCreateRuleGroup(store, group, fault) ==
  IF fault THEN [err |-> ErrInjected, store |-> store]
  ELSE [err |-> "", store |-> group]

\* what another writer leaves in a store
ForeignArtifact(kind, rv) == [Kind |-> kind, Labels |-> "foreign", ResourceVersion |-> rv]

(* --------------------------- bookkeeping ------------------------------- *)
\* one store call: the function issuing it, operation, target, error returned, revision token sent,
\* the store's token when the call arrived, and what was sent
Call(by, op, target, err, token, cur, payload) ==
  [by |-> by, op |-> op, target |-> target, err |-> err, token |-> token, cur |-> cur,
   payload |-> payload]

NoResult == [done |-> FALSE, err |-> ""]
Returned(err) == [done |-> TRUE, err |-> err]

Disturbances == faults + extWrites + (IF Exists(sloStore) THEN 0 ELSE 1)

FaultChoices == IF faults < MaxFaults THEN {TRUE, FALSE} ELSE {FALSE}
Count(fault) == IF fault THEN faults + 1 ELSE faults

NoRule == RecordingRule("", "")
NoNode == [Kind |-> "none"]
NoNodes == <<NoNode>>
NotBuilt == [by |-> "", err |-> "", obj |-> NoArtifact]

(* ------------------------- control flow of the code -------------------- *)
\* Reconcile: the path taken after the Objective was found
Dispatch(configMapMode) == IF configMapMode THEN "cm_get" ELSE "mimir_status"

\* a fetch branch that takes every error for not-found
AfterGetAnyErrorCreates(err, create, update) ==
  IF err = "" THEN update ELSE create

\* a fetch branch that returns on not-found as on any other error
AfterGetNeverCreates(err, create, update) ==
  IF err = "" THEN update ELSE "idle"

\* the branch on the artifact fetch: not found creates, another error
\* returns, no error goes on to the update
AfterGet(err, create, update) ==
  IF err = "" THEN update ELSE IF err = ErrNotFound THEN create ELSE "idle"

\* a create branch that goes straight to the status update
AfterCreateSkipsUpdate(err, update) ==
  IF err # "" THEN "idle" ELSE IF update = "cm_update" THEN "cm_status" ELSE "pr_status"

\* the branch on the create
AfterCreate(err, update) == IF err # "" THEN "idle" ELSE update

\* the branch on the update
AfterUpdate(err, status) == IF err # "" THEN "idle" ELSE status

\* fmt.Errorf("...: %w", err)
\* a fetch error handling that returns not-found like any other error
IgnoreNotFoundKeepsError(err) == Wrap("getting SLO", err)

\* client.IgnoreNotFound(fmt.Errorf("getting SLO: %w", err))
IgnoreNotFound(err) == IF err = ErrNotFound THEN "" ELSE Wrap("getting SLO", err)

Goto(next, err) ==
  /\ pc' = next
  /\ result' = IF next = "idle" THEN Returned(err) ELSE result

(* ------------------------------ Reconcile ------------------------------ *)
\* one invocation started: the fetch of the Objective, the dispatch and the
\* first builder. started is what the invocation adds to the invocation count;
\* orphans are the artifact stores as the invocation leaves them when the
\* Objective is gone.
ReconcileCalls(started, orphans) ==
  /\ pc \in {"idle", "queued"}
  /\ \E fault \in FaultChoices :
       LET got   == StoreGet(sloStore, fault)
           first == Dispatch(cfg.ConfigMapMode)
           build == IF first = "cm_get"
                    THEN makeConfigMap(ConfigMapName(got.obj), got.obj, cfg.GenericRules)
                    ELSE makeMimirRuleGroup(got.obj, cfg.GenericRules,
                                            cfg.MimirWriteAlertingRules)
       IN  /\ faults' = Count(fault)
           /\ log' = <<Call("Reconcile", "get", "slo", got.err, 0, 0, NoArtifact)>>
           /\ IF got.err # ""
              THEN /\ pc' = "idle"
                   /\ result' = Returned(IgnoreNotFound(got.err))
                   /\ UNCHANGED <<slo, kubeObjective, newArtifact>>
              ELSE /\ slo' = got.obj
                   /\ kubeObjective' = got.obj
                   /\ IF build.err # ""
                      THEN /\ pc' = "idle"
                           /\ result' = Returned(build.err)
                           /\ UNCHANGED newArtifact
                      ELSE /\ pc' = first
                           /\ result' = NoResult
                           /\ newArtifact' = build.obj
           /\ LET left == IF got.err = ErrNotFound THEN orphans ELSE <<cm, pr, mimir>>
              IN  /\ cm' = left[1]
                  /\ pr' = left[2]
                  /\ mimir' = left[3]
  /\ invocations' = invocations + started
  /\ prev' = [log |-> log, result |-> result, mark |-> mark]
  /\ mark' = Disturbances
  /\ UNCHANGED <<cfg, sloStore, extWrites>>
  /\ UNCHANGED trVars

\* a Reconcile that removes the artifacts of an Objective that is gone
ReconcileCollectsGarbage ==
  /\ invocations < MaxInvocations
  /\ ReconcileCalls(1, <<NoArtifact, NoArtifact, NoArtifact>>)

\* Reconcile: returns at line 72 when the Objective is gone and leaves the
\* artifact stores as they are
Reconcile ==
  /\ invocations < MaxInvocations
  /\ ReconcileCalls(1, <<cm, pr, mimir>>)

\* the work queue takes the key back after Reconcile returned an error
Requeue ==
  /\ invocations = MaxInvocations
  /\ pc = "idle"
  /\ result.done
  /\ result.err # ""
  /\ pc' = "queued"
  /\ UNCHANGED <<cfg, sloStore, cm, pr, mimir, slo, kubeObjective, newArtifact, log,
                 result, prev, mark, invocations, faults, extWrites>>
  /\ UNCHANGED trVars

\* the work queue hands the requeued key to Reconcile
Retry ==
  /\ pc = "queued"
  /\ ReconcileCalls(0, <<cm, pr, mimir>>)

(* ------------------------- reconcileConfigMap -------------------------- *)
reconcileConfigMapGet ==
  /\ pc = "cm_get"
  /\ \E fault \in FaultChoices :
       LET got == StoreGet(cm, fault)
       IN  /\ faults' = Count(fault)
           /\ log' = Append(log, Call("reconcileConfigMap", "get", "cm", got.err, 0, TokenOf(cm), NoArtifact))
           /\ Goto(AfterGet(got.err, "cm_create", "cm_update"),
                   Wrap("failed to get config map", got.err))
           \* newConfigMap.ResourceVersion = existingConfigMap.ResourceVersion
           /\ newArtifact' = IF got.err = ""
                             THEN [newArtifact EXCEPT !.ResourceVersion = got.obj.ResourceVersion]
                             ELSE newArtifact
  /\ UNCHANGED <<cfg, sloStore, cm, pr, mimir, slo, kubeObjective, prev, mark,
                 invocations, extWrites>>
  /\ UNCHANGED trVars

reconcileConfigMapCreate ==
  /\ pc = "cm_create"
  /\ \E fault \in FaultChoices :
       LET made == StoreCreate(cm, newArtifact, fault)
       IN  /\ faults' = Count(fault)
           /\ log' = Append(log, Call("reconcileConfigMap", "create", "cm", made.err, newArtifact.ResourceVersion,
                                      TokenOf(cm), Content(newArtifact)))
           /\ cm' = made.store
           /\ Goto(AfterCreate(made.err, "cm_update"),
                   Wrap("failed to create config map", made.err))
           \* existingConfigMap is still the zero object: its token is empty
           /\ newArtifact' = [newArtifact EXCEPT !.ResourceVersion = 0]
  /\ UNCHANGED <<cfg, sloStore, pr, mimir, slo, kubeObjective, prev, mark,
                 invocations, extWrites>>
  /\ UNCHANGED trVars

reconcileConfigMapUpdate ==
  /\ pc = "cm_update"
  /\ \E fault \in FaultChoices :
       LET upd == StoreUpdate(cm, newArtifact, fault)
       IN  /\ faults' = Count(fault)
           /\ log' = Append(log, Call("reconcileConfigMap", "update", "cm", upd.err, newArtifact.ResourceVersion,
                                      TokenOf(cm), Content(newArtifact)))
           /\ cm' = upd.store
           /\ Goto(AfterUpdate(upd.err, "cm_status"),
                   Wrap("failed to update config map", upd.err))
           /\ kubeObjective' = IF upd.err = ""
                               THEN [kubeObjective EXCEPT !.StatusType = "ConfigMap"]
                               ELSE kubeObjective
  /\ UNCHANGED <<cfg, sloStore, pr, mimir, slo, newArtifact, prev, mark,
                 invocations, extWrites>>
  /\ UNCHANGED trVars

reconcileConfigMapStatus ==
  /\ pc = "cm_status"
  /\ \E fault \in FaultChoices :
       LET st == StatusUpdate(sloStore, kubeObjective, fault)
       IN  /\ faults' = Count(fault)
           /\ log' = Append(log, Call("reconcileConfigMap", "status", "slo", st.err, 0, 0,
                                      [StatusType |-> kubeObjective.StatusType]))
           /\ sloStore' = st.store
           /\ Goto("idle", st.err)
  /\ UNCHANGED <<cfg, cm, pr, mimir, slo, kubeObjective, newArtifact, prev, mark,
                 invocations, extWrites>>
  /\ UNCHANGED trVars

(* ----------------------- reconcileMimirRuleGroup ----------------------- *)
\* a status step that sets the tag before the status call
reconcileMimirRuleGroupStatusTagsFirst ==
  /\ pc = "mimir_status"
  /\ \E fault \in FaultChoices :
       LET tagged == [kubeObjective EXCEPT !.StatusType = "MimirRule"]
           st     == StatusUpdate(sloStore, tagged, fault)
       IN  /\ faults' = Count(fault)
           /\ log' = Append(log, Call("reconcileMimirRuleGroup", "status", "slo", st.err, 0, 0,
                                      [StatusType |-> tagged.StatusType]))
           /\ sloStore' = st.store
           /\ Goto(IF st.err # "" THEN "idle" ELSE "mimir_push", st.err)
           /\ kubeObjective' = tagged
  /\ UNCHANGED <<cfg, cm, pr, mimir, slo, newArtifact, prev, mark,
                 invocations, extWrites>>
  /\ UNCHANGED trVars

reconcileMimirRuleGroupStatus ==
  /\ pc = "mimir_status"
  /\ \E fault \in FaultChoices :
       LET st == StatusUpdate(sloStore, kubeObjective, fault)
       IN  /\ faults' = Count(fault)
           /\ log' = Append(log, Call("reconcileMimirRuleGroup", "status", "slo", st.err, 0, 0,
                                      [StatusType |-> kubeObjective.StatusType]))
           /\ sloStore' = st.store
           /\ Goto(IF st.err # "" THEN "idle" ELSE "mimir_push", st.err)
           \* the tag is set on the local copy after the status call
           /\ kubeObjective' = IF st.err = ""
                               THEN [kubeObjective EXCEPT !.StatusType = "MimirRule"]
                               ELSE kubeObjective
  /\ UNCHANGED <<cfg, cm, pr, mimir, slo, newArtifact, prev, mark,
                 invocations, extWrites>>
  /\ UNCHANGED trVars

\* the push, and on success the start of reconcilePrometheusRule, which
\* builds its artifact from Reconcile's own copy of the Objective
reconcileMimirRuleGroupPush ==
  /\ pc = "mimir_push"
  /\ \E fault \in FaultChoices :
       LET pushed == MimirCreateRuleGroup(mimir, newArtifact, fault)
           build  == makePrometheusRule(slo, cfg.GenericRules)
       IN  /\ faults' = Count(fault)
           /\ log' = Append(log, Call("reconcileMimirRuleGroup", "push", "mimir", pushed.err, 0, 0, newArtifact))
           /\ mimir' = pushed.store
           /\ IF pushed.err # ""
              THEN /\ Goto("idle", pushed.err)
                   /\ UNCHANGED <<kubeObjective, newArtifact>>
              ELSE /\ kubeObjective' = slo
                   /\ IF build.err # ""
                      THEN /\ Goto("idle", build.err)
                           /\ UNCHANGED newArtifact
                      ELSE /\ Goto("pr_get", "")
                           /\ newArtifact' = build.obj
  /\ UNCHANGED <<cfg, sloStore, cm, pr, slo, prev, mark, invocations, extWrites>>
  /\ UNCHANGED trVars

(* ----------------------- reconcilePrometheusRule ----------------------- *)
reconcilePrometheusRuleGet ==
  /\ pc = "pr_get"
  /\ \E fault \in FaultChoices :
       LET got == StoreGet(pr, fault)
       IN  /\ faults' = Count(fault)
           /\ log' = Append(log, Call("reconcilePrometheusRule", "get", "pr", got.err, 0, TokenOf(pr), NoArtifact))
           /\ Goto(AfterGet(got.err, "pr_create", "pr_update"),
                   Wrap("failed to get prometheus rule", got.err))
           \* newRule.ResourceVersion = rule.ResourceVersion
           /\ newArtifact' = IF got.err = ""
                             THEN [newArtifact EXCEPT !.ResourceVersion = got.obj.ResourceVersion]
                             ELSE newArtifact
  /\ UNCHANGED <<cfg, sloStore, cm, pr, mimir, slo, kubeObjective, prev, mark,
                 invocations, extWrites>>
  /\ UNCHANGED trVars

reconcilePrometheusRuleCreate ==
  /\ pc = "pr_create"
  /\ \E fault \in FaultChoices :
       LET made == StoreCreate(pr, newArtifact, fault)
       IN  /\ faults' = Count(fault)
           /\ log' = Append(log, Call("reconcilePrometheusRule", "create", "pr", made.err, newArtifact.ResourceVersion,
                                      TokenOf(pr), Content(newArtifact)))
           /\ pr' = made.store
           /\ Goto(AfterCreate(made.err, "pr_update"), made.err)
           \* rule is still the zero object: its token is empty
           /\ newArtifact' = [newArtifact EXCEPT !.ResourceVersion = 0]
  /\ UNCHANGED <<cfg, sloStore, cm, mimir, slo, kubeObjective, prev, mark,
                 invocations, extWrites>>
  /\ UNCHANGED trVars

reconcilePrometheusRuleUpdate ==
  /\ pc = "pr_update"
  /\ \E fault \in FaultChoices :
       LET upd == StoreUpdate(pr, newArtifact, fault)
       IN  /\ faults' = Count(fault)
           /\ log' = Append(log, Call("reconcilePrometheusRule", "update", "pr", upd.err, newArtifact.ResourceVersion,
                                      TokenOf(pr), Content(newArtifact)))
           /\ pr' = upd.store
           /\ Goto(AfterUpdate(upd.err, "pr_status"),
                   Wrap("failed to update prometheus rule", upd.err))
           /\ kubeObjective' = IF upd.err = ""
                               THEN [kubeObjective EXCEPT !.StatusType = "PrometheusRule"]
                               ELSE kubeObjective
  /\ UNCHANGED <<cfg, sloStore, cm, mimir, slo, newArtifact, prev, mark,
                 invocations, extWrites>>
  /\ UNCHANGED trVars

reconcilePrometheusRuleStatus ==
  /\ pc = "pr_status"
  /\ \E fault \in FaultChoices :
       LET st == StatusUpdate(sloStore, kubeObjective, fault)
       IN  /\ faults' = Count(fault)
           /\ log' = Append(log, Call("reconcilePrometheusRule", "status", "slo", st.err, 0, 0,
                                      [StatusType |-> kubeObjective.StatusType]))
           /\ sloStore' = st.store
           /\ Goto("idle", st.err)
  /\ UNCHANGED <<cfg, cm, pr, mimir, slo, kubeObjective, newArtifact, prev, mark,
                 invocations, extWrites>>
  /\ UNCHANGED trVars

(* ------------------------------ environment ---------------------------- *)
\* another writer replaces (or creates) the stored ConfigMap
ExternalWriteConfigMap ==
  /\ extWrites < MaxExternalWrites
  /\ cm' = ForeignArtifact("ConfigMap", TokenOf(cm) + 1)
  /\ extWrites' = extWrites + 1
  /\ UNCHANGED <<cfg, sloStore, pr, mimir, pc, slo, kubeObjective, newArtifact, log,
                 result, prev, mark, invocations, faults>>
  /\ UNCHANGED trVars

\* another writer replaces (or creates) the stored PrometheusRule
ExternalWritePrometheusRule ==
  /\ extWrites < MaxExternalWrites
  /\ pr' = ForeignArtifact("PrometheusRule", TokenOf(pr) + 1)
  /\ extWrites' = extWrites + 1
  /\ UNCHANGED <<cfg, sloStore, cm, mimir, pc, slo, kubeObjective, newArtifact, log,
                 result, prev, mark, invocations, faults>>
  /\ UNCHANGED trVars

\* the owner deletes the Objective
DeleteObjective ==
  /\ Exists(sloStore)
  /\ sloStore' = NoArtifact
  /\ UNCHANGED <<cfg, cm, pr, mimir, pc, slo, kubeObjective, newArtifact, log,
                 result, prev, mark, invocations, faults, extWrites>>
  /\ UNCHANGED trVars

(* ---------------------------- specification ---------------------------- *)
Configs ==
  [ConfigMapMode : BOOLEAN, GenericRules : BOOLEAN, MimirWriteAlertingRules : BOOLEAN]

Init ==
  /\ cfg \in Configs
  /\ sloStore \in Objectives
  /\ cm = NoArtifact
  /\ pr = NoArtifact
  /\ mimir = NoArtifact
  /\ pc = "idle"
  /\ slo = NoArtifact
  /\ kubeObjective = NoArtifact
  /\ newArtifact = NoArtifact
  /\ log = <<>>
  /\ result = NoResult
  /\ prev = [log |-> <<>>, result |-> NoResult, mark |-> 0]
  /\ mark = 0
  /\ invocations = 0
  /\ faults = 0
  /\ extWrites = 0
  /\ promRule = NoRule
  /\ ruleNode = NoNode
  /\ promRules = <<>>
  /\ mimirRules = NoNodes
  /\ built = NotBuilt

Next ==
  \/ Reconcile
  \/ reconcileConfigMapGet
  \/ reconcileConfigMapCreate
  \/ reconcileConfigMapUpdate
  \/ reconcileConfigMapStatus
  \/ reconcileMimirRuleGroupStatus
  \/ reconcileMimirRuleGroupPush
  \/ reconcilePrometheusRuleGet
  \/ reconcilePrometheusRuleCreate
  \/ reconcilePrometheusRuleUpdate
  \/ reconcilePrometheusRuleStatus
  \/ ExternalWriteConfigMap
  \/ ExternalWritePrometheusRule
  \/ DeleteObjective

Spec == Init /\ [][Next]_vars

(* ----------------- specification of the rule translation --------------- *)
ForStrings ==
  { <<"5", "m">>, <<"2", "m">>, <<"1", "h">>, <<"3", "0", "s">>,
    <<"1", "h", "3", "0", "m">>, <<"1", ".", "5", "m">>, <<".", "5", "m">>,
    <<"5", "0", "0", "m", "s">>, <<"0">>, <<"+", "3", "m">>, <<"-", "2", "m">>,
    <<>>, <<"a", "b", "c">>, <<"1", "d">>, <<"1", "w">>, <<"5">>, <<"m">>,
    <<"2", "m", "3", "0">>, <<".", "m">>, <<"5", " ", "m">>, <<"5", "M">>,
    <<"0", "0">>, <<"5", "u", "s">>, <<"5", "µ", "s">>, <<"5", "μ", "s">>,
    <<"5", "n", "s">>, <<"1", "5", "0", "0", "u", "s">>, <<"0", ".", "5", "m", "s">>,
    <<"1", ".", "0", "0", "0", "5", "s">>,
    <<"0", ".", "0", "0", "0", "5", "s", "0", ".", "0", "0", "0", "5", "s">>,
    <<"5", "9", "7", "h">>, <<"1", ".", "9", "9", "9", "9", "h">>,
    <<"3", "0", "0", "0", "0", "0", "0", "h">> }

RuleInputs ==
  { [Record |-> rec, Alert |-> alert, Expr |-> expr, For |-> for,
     Labels |-> "slo", Annotations |-> "runbook"] :
       rec \in {"", "http_requests:burnrate5m"},
       alert \in {"", "ErrorBudgetBurn"},
       expr \in {"burn", "absent"},
       for \in {NoFor} \cup {ForOf(f) : f \in ForStrings} }

InitTranslate ==
  /\ cfg = [ConfigMapMode |-> FALSE, GenericRules |-> FALSE, MimirWriteAlertingRules |-> TRUE]
  /\ sloStore = NoArtifact
  /\ cm = NoArtifact
  /\ pr = NoArtifact
  /\ mimir = NoArtifact
  /\ pc = "idle"
  /\ slo = NoArtifact
  /\ kubeObjective = NoArtifact
  /\ newArtifact = NoArtifact
  /\ log = <<>>
  /\ result = NoResult
  /\ prev = [log |-> <<>>, result |-> NoResult, mark |-> 0]
  /\ mark = 0
  /\ invocations = 0
  /\ faults = 0
  /\ extWrites = 0
  /\ promRule \in RuleInputs
  /\ ruleNode = NoNode
  /\ promRules = <<>>
  /\ mimirRules = NoNodes
  /\ built = NotBuilt

\* one call of prometheusRuleToMimirRuleNode
TranslateRule ==
  /\ ruleNode = NoNode
  /\ ruleNode' = prometheusRuleToMimirRuleNode(promRule)
  /\ UNCHANGED <<promRule, promRules, mimirRules, built>>
  /\ UNCHANGED ctlVars

NextTranslate == TranslateRule

SpecTranslate == InitTranslate /\ [][NextTranslate]_vars

(* ------------------------ reading the call log ------------------------- *)
Upserters == {"reconcileConfigMap", "reconcileMimirRuleGroup", "reconcilePrometheusRule"}

\* the calls one upserter issued in the invocation
ByLog(l, f) == SelectSeq(l, LAMBDA c : c.by = f)

CountOps(l, ops) == Cardinality({i \in DOMAIN l : l[i].op \in ops})

WriteOps == {"create", "update", "push"}

\* the store targets other than the Objective that the invocation called
ArtifactTargets(l) == {l[i].target : i \in DOMAIN l} \ {"slo"}

\* the last call an upserter makes before it returns success
FinalOp(f) == IF f = "reconcileMimirRuleGroup" THEN "push" ELSE "status"

TypeTag(f) ==
  CASE f = "reconcileConfigMap" -> "ConfigMap"
    [] f = "reconcilePrometheusRule" -> "PrometheusRule"
    [] f = "reconcileMimirRuleGroup" -> "MimirRule"

\* the upserter ran in this invocation and returned no error
Succeeded(l, f) ==
  LET fl == ByLog(l, f)
  IN  /\ fl # <<>>
      /\ fl[Len(fl)].op = FinalOp(f)
      /\ fl[Len(fl)].err = ""

StoreOf(target) ==
  CASE target = "cm" -> cm [] target = "pr" -> pr [] target = "mimir" -> mimir
    [] OTHER -> sloStore

\* what is stored under a target, without its revision token
StoredContent(target) ==
  IF target = "mimir" THEN mimir ELSE Content(StoreOf(target))

\* the error the upserter returns when the given call failed
ErrorOf(c) ==
  CASE c.by = "reconcileConfigMap" /\ c.op = "get" -> Wrap("failed to get config map", c.err)
    [] c.by = "reconcileConfigMap" /\ c.op = "create" -> Wrap("failed to create config map", c.err)
    [] c.by = "reconcileConfigMap" /\ c.op = "update" -> Wrap("failed to update config map", c.err)
    [] c.by = "reconcilePrometheusRule" /\ c.op = "get" ->
         Wrap("failed to get prometheus rule", c.err)
    [] c.by = "reconcilePrometheusRule" /\ c.op = "update" ->
         Wrap("failed to update prometheus rule", c.err)
    [] OTHER -> c.err

\* nothing disturbed the store during the last two invocations: no injected
\* failure, no other writer, no deletion of the Objective
Quiet == prev.mark = Disturbances

\* the last two invocations have both returned
BothReturned == pc = "idle" /\ invocations >= 2 /\ prev.result.done /\ result.done

(* ------------------------------- claims -------------------------------- *)

\* C1: within one Reconcile invocation, store calls are issued against the
\* artifacts of at most one of the three backends (config bundle, engine-native
\* rule object, remote rule group).
C1_AtMostOneBackend == Cardinality(ArtifactTargets(log)) <= 1

\* C2 (as stated): an upserter that returns no error has issued exactly one
\* create-or-update call (never both) and exactly one status update call.
C2_OneWritePerUpserter ==
  \A f \in Upserters :
    Succeeded(log, f) =>
      /\ CountOps(ByLog(log, f), WriteOps) = 1
      /\ CountOps(ByLog(log, f), {"status"}) = 1

\* C2 (amended): an upserter that returns no error has issued exactly one
\* update call (the remote-push upserter: exactly one push), preceded by one
\* create call exactly when its fetch reported not-found, and exactly one
\* status update call.
C2_OneUpdatePerUpserter ==
  \A f \in Upserters :
    Succeeded(log, f) =>
      LET fl == ByLog(log, f)
      IN  /\ CountOps(fl, {"status"}) = 1
          /\ IF f = "reconcileMimirRuleGroup"
             THEN /\ CountOps(fl, {"push"}) = 1
                  /\ CountOps(fl, {"create", "update"}) = 0
             ELSE /\ CountOps(fl, {"update"}) = 1
                  /\ CountOps(fl, {"push"}) = 0
                  /\ fl[1].op = "get"
                  /\ CountOps(fl, {"create"}) = IF fl[1].err = ErrNotFound THEN 1 ELSE 0

C2_Witness ==
  /\ Succeeded(log, "reconcileConfigMap")
  /\ CountOps(ByLog(log, "reconcileConfigMap"), {"create"}) = 1
  /\ CountOps(ByLog(log, "reconcileConfigMap"), {"update"}) = 1

\* C3: in every upserter, a status update call is issued only after the
\* invocation has attempted its artifact write (create, update or push).
C3_StatusAfterWrite ==
  \A f \in Upserters :
    LET fl == ByLog(log, f)
    IN  \A i \in DOMAIN fl :
          fl[i].op = "status" => \E j \in 1..(i - 1) : fl[j].op \in WriteOps

\* C4: two Reconcile invocations in succession, with no external change and
\* no injected failure, write the identical artifact, and the second one
\* issues no create: what the first wrote, the second updates.
C4_Idempotent ==
  (BothReturned /\ Quiet) =>
    /\ \A i \in DOMAIN prev.log : \A j \in DOMAIN log :
         ( /\ prev.log[i].op \in WriteOps
           /\ log[j].op \in WriteOps
           /\ prev.log[i].target = log[j].target )
         => prev.log[i].payload = log[j].payload
    /\ CountOps(log, {"create"}) = 0
    /\ \A i \in DOMAIN prev.log :
         (prev.log[i].op \in WriteOps /\ prev.log[i].err = "") =>
           \E j \in DOMAIN log :
             /\ log[j].target = prev.log[i].target
             /\ log[j].op \in {"update", "push"}
             /\ log[j].err = ""
             /\ StoredContent(log[j].target) = prev.log[i].payload

C4_Witness ==
  /\ BothReturned
  /\ Quiet
  /\ CountOps(prev.log, {"create"}) = 1
  /\ CountOps(log, {"update"}) = 1
  /\ result = Returned("")

\* C5: with no other writer, the revision token carried by every update call
\* equals the store's current token for that artifact, also when the update
\* follows a successful create of the same invocation.
C5_UpdateTokenCurrent ==
  extWrites = 0 =>
    \A i \in DOMAIN log : log[i].op = "update" => log[i].token = log[i].cur

\* the revision token the store held when the upserter last heard from it
\* before its call i: the token its create was given, or else the token of
\* the artifact it fetched (0 when there was none)
TokenSeen(fl, i) ==
  IF fl[i - 1].op = "create" /\ fl[i - 1].err = "" THEN fl[i - 1].cur + 1 ELSE fl[1].cur

\* C6: when another writer changes the stored artifact between an upserter's
\* fetch and its update, the update is rejected, the invocation returns that
\* rejection as its error, issues no second update and no status update, and
\* the other writer's artifact stays in the store.
C6_StaleUpdateSurfaced ==
  \A f \in {"reconcileConfigMap", "reconcilePrometheusRule"} :
    LET fl == ByLog(log, f)
    IN  \A i \in DOMAIN fl :
          ( /\ fl[i].op = "update"
            /\ fl[1].op = "get"
            /\ fl[i].cur # TokenSeen(fl, i) )
          => /\ fl[i].err # ""
             /\ i = Len(fl)
             /\ log[Len(log)] = fl[i]
             /\ CountOps(fl, {"update"}) = 1
             /\ CountOps(fl, {"status"}) = 0
             /\ pc = "idle"
             /\ result = Returned(ErrorOf(fl[i]))
             /\ StoreOf(fl[i].target).Labels = "foreign"
             /\ TokenOf(StoreOf(fl[i].target)) >= fl[i].cur

\* 300000000000 ns
FiveMinutes == Duration(FALSE, <<3000, 0, 0>>)

\* C7: the remote rule node of an alerting rule has a "for" duration of
\* exactly 5 minutes when the rule's "for" string fails to parse, and also
\* when the rule has no "for" value.
C7_ForFallback ==
  (ruleNode # NoNode /\ promRule.Alert # "") =>
    /\ (promRule.For.set /\ ParseDuration(promRule.For.s).err) => ruleNode.For = FiveMinutes
    /\ ~promRule.For.set => ruleNode.For = FiveMinutes

\* C8: in every upserter the first fatal store error ends the invocation: a
\* fetch error other than not-found, a failed create, a failed update (or
\* push) is the last call of the invocation, and its error is returned.
C8_FirstErrorAborts ==
  \A i \in DOMAIN log :
    ( /\ log[i].by \in Upserters
      /\ log[i].op \in {"get", "create", "update", "push"}
      /\ log[i].err # ""
      /\ ~(log[i].op = "get" /\ log[i].err = ErrNotFound) )
    => /\ i = Len(log)
       /\ pc = "idle"
       /\ result = Returned(ErrorOf(log[i]))

C8_Witness ==
  /\ pc = "idle"
  /\ Len(log) >= 2
  /\ log[Len(log)].op = "get"
  /\ log[Len(log)].err = ErrInjected
  /\ result.err # ""

\* C9: when an upserter returns success, the Type it wrote to the Objective's
\* status sub-resource is that backend's own tag.
C9_StatusTagOfBackend ==
  \A f \in Upserters :
    Succeeded(log, f) =>
      LET fl == ByLog(log, f)
      IN  \A i \in DOMAIN fl :
            fl[i].op = "status" => fl[i].payload.StatusType = TypeTag(f)

\* C10: when an upserter's status update call fails, the invocation returns
\* that error and the artifact write of the same invocation is already
\* committed to the store and stays committed.
C10_StatusFailureKeepsArtifact ==
  \A f \in Upserters :
    LET fl == ByLog(log, f)
    IN  \A i \in DOMAIN fl :
          (fl[i].op = "status" /\ fl[i].err # "") =>
            /\ pc = "idle"
            /\ result = Returned(fl[i].err)
            /\ \E j \in 1..(i - 1) :
                 /\ fl[j].op \in WriteOps
                 /\ fl[j].err = ""
                 /\ (extWrites = 0 => StoredContent(fl[j].target) = fl[j].payload)

\* C11: when artifact construction fails (the increase-rule request, the
\* burn-rate request, or the generic-rule request with anything other than
\* "grouping unsupported"), the invocation returns the error and has issued
\* no create, update or remote push call.
C11_NoWriteOnBuildFailure ==
  ( /\ pc = "idle"
    /\ result.done
    /\ result.err \in {"failed to get increase rules: increase rules error",
                       "failed to get burn rate rules: burn rate rules error",
                       "failed to get generic rules: generic rules error"} )
  => CountOps(log, WriteOps) = 0

(* --------- specification of the translation of a rule sequence --------- *)
MaxRules == 3

RuleAlphabet ==
  { RecordingRule("http_requests:increase4w", "increase"),
    RecordingRule("http_requests:burnrate5m", "rate5m"),
    AlertingRule("ErrorBudgetBurn", "burn", ForOf(<<"2", "m">>)),
    AlertingRule("SLOMetricAbsent", "absent", NoFor) }

RuleSeqs == UNION { [1..n -> RuleAlphabet] : n \in 0..MaxRules }

InitRules ==
  /\ cfg \in { [ConfigMapMode |-> FALSE, GenericRules |-> FALSE,
                MimirWriteAlertingRules |-> w] : w \in BOOLEAN }
  /\ sloStore = NoArtifact
  /\ cm = NoArtifact
  /\ pr = NoArtifact
  /\ mimir = NoArtifact
  /\ pc = "idle"
  /\ slo = NoArtifact
  /\ kubeObjective = NoArtifact
  /\ newArtifact = NoArtifact
  /\ log = <<>>
  /\ result = NoResult
  /\ prev = [log |-> <<>>, result |-> NoResult, mark |-> 0]
  /\ mark = 0
  /\ invocations = 0
  /\ faults = 0
  /\ extWrites = 0
  /\ promRule = NoRule
  /\ ruleNode = NoNode
  /\ promRules \in RuleSeqs
  /\ mimirRules = NoNodes
  /\ built = NotBuilt

\* one call of prometheusRulesToMimirRules
TranslateRules ==
  /\ mimirRules = NoNodes
  /\ mimirRules' = prometheusRulesToMimirRules(promRules, cfg.MimirWriteAlertingRules)
  /\ UNCHANGED <<promRule, ruleNode, promRules, built>>
  /\ UNCHANGED ctlVars

NextRules == TranslateRules

SpecRules == InitRules /\ [][NextRules]_vars

\* the recording rules of a rule sequence, the recording-type nodes of a
\* node sequence, and whether a node is the node of a given recording rule
RecordingRules(rules) == SelectSeq(rules, LAMBDA r : r.Alert = "")
RecordingNodes(nodes) == SelectSeq(nodes, LAMBDA n : n.Alert.Value = "")
NodeOfRecording(n, r) ==
  /\ n.Record.Value = r.Record
  /\ n.Expr.Value = r.Expr
  /\ n.Labels = r.Labels
  /\ n.Alert.Value = ""

\* C12: with forwarding disabled the translated sequence holds no alert-type
\* node; whatever the setting, its recording-type nodes are the nodes of the
\* input's recording rules, one for each, in the input's order.
C12_AlertsFiltered ==
  mimirRules # NoNodes =>
    LET rec  == RecordingRules(promRules)
        kept == RecordingNodes(mimirRules)
    IN  /\ Len(kept) = Len(rec)
        /\ \A i \in DOMAIN rec : NodeOfRecording(kept[i], rec[i])
        /\ ~cfg.MimirWriteAlertingRules => kept = mimirRules

C12_Witness ==
  /\ mimirRules # NoNodes
  /\ ~cfg.MimirWriteAlertingRules
  /\ Len(promRules) = 3
  /\ Len(mimirRules) = 2
  /\ mimirRules[1].Record.Value # mimirRules[2].Record.Value

(* ---------------- specification of the artifact builders --------------- *)
InitBuild ==
  /\ cfg \in Configs
  /\ sloStore = NoArtifact
  /\ cm = NoArtifact
  /\ pr = NoArtifact
  /\ mimir = NoArtifact
  /\ pc = "idle"
  /\ slo = NoArtifact
  /\ kubeObjective \in Objectives
  /\ newArtifact = NoArtifact
  /\ log = <<>>
  /\ result = NoResult
  /\ prev = [log |-> <<>>, result |-> NoResult, mark |-> 0]
  /\ mark = 0
  /\ invocations = 0
  /\ faults = 0
  /\ extWrites = 0
  /\ promRule = NoRule
  /\ ruleNode = NoNode
  /\ promRules = <<>>
  /\ mimirRules = NoNodes
  /\ built = NotBuilt

BuiltBy(by, res) == [by |-> by, err |-> res.err, obj |-> res.obj]

\* one call of makeConfigMap
BuildConfigMap ==
  /\ built = NotBuilt
  /\ built' = BuiltBy("makeConfigMap",
                      makeConfigMap(ConfigMapName(kubeObjective), kubeObjective,
                                    cfg.GenericRules))
  /\ UNCHANGED <<promRule, ruleNode, promRules, mimirRules>>
  /\ UNCHANGED ctlVars

\* one call of makePrometheusRule
BuildPrometheusRule ==
  /\ built = NotBuilt
  /\ built' = BuiltBy("makePrometheusRule", makePrometheusRule(kubeObjective, cfg.GenericRules))
  /\ UNCHANGED <<promRule, ruleNode, promRules, mimirRules>>
  /\ UNCHANGED ctlVars

\* one call of makeMimirRuleGroup
BuildMimirRuleGroup ==
  /\ built = NotBuilt
  /\ built' = BuiltBy("makeMimirRuleGroup",
                      makeMimirRuleGroup(kubeObjective, cfg.GenericRules,
                                         cfg.MimirWriteAlertingRules))
  /\ UNCHANGED <<promRule, ruleNode, promRules, mimirRules>>
  /\ UNCHANGED ctlVars

NextBuild ==
  \/ BuildConfigMap
  \/ BuildPrometheusRule
  \/ BuildMimirRuleGroup

SpecBuild == InitBuild /\ [][NextBuild]_vars

\* the rule groups an engine-native or config-bundle artifact carries
GroupsOf(obj) ==
  IF obj.Kind = "ConfigMap" THEN obj.Data[obj.Name \o ".rules.yaml"].yaml ELSE obj.Spec

\* C13: in makeConfigMap and makePrometheusRule, with generic rules requested:
\* "grouping unsupported" gives exactly the two groups increase, burn-rate
\* and no error; a supported request gives three groups, the generic one
\* last; any other failure gives an error and no artifact.
C13_GenericOptional ==
  ( /\ built.by \in {"makeConfigMap", "makePrometheusRule"}
    /\ cfg.GenericRules
    /\ kubeObjective.fail = "" )
  => CASE kubeObjective.genericOutcome = "unsupported" ->
            /\ built.err = ""
            /\ GroupsOf(built.obj) = <<kubeObjective.increases, kubeObjective.burnrates>>
       [] kubeObjective.genericOutcome = "ok" ->
            /\ built.err = ""
            /\ GroupsOf(built.obj) = <<kubeObjective.increases, kubeObjective.burnrates,
                                       kubeObjective.generic>>
       [] OTHER ->
            /\ built.err # ""
            /\ built.obj = NoArtifact

C13_Witness ==
  /\ built.by = "makeConfigMap"
  /\ cfg.GenericRules
  /\ kubeObjective.genericOutcome = "unsupported"
  /\ built.err = ""
  /\ Len(GroupsOf(built.obj)) = 2

\* C14: when the fetch of the Objective reports not-found, Reconcile returns
\* no error, and when it fails otherwise Reconcile returns that error; in
\* both cases the fetch is the only call of the invocation.
C14_ObjectiveFetchFailure ==
  (log # <<>> /\ log[1].err # "") =>
    /\ log[1].by = "Reconcile"
    /\ Len(log) = 1
    /\ pc = "idle"
    /\ result = Returned(IF log[1].err = ErrNotFound THEN ""
                         ELSE "getting SLO: " \o log[1].err)

C14_Witness ==
  /\ ~Exists(sloStore)
  /\ log # <<>>
  /\ log[1].err = ErrNotFound
  /\ result = Returned("")
  /\ invocations >= 1

\* C15: no step of the reconciler or of its environment removes a stored
\* artifact: a config bundle, rule object or remote rule group that is stored
\* stays stored, also when the Objective is deleted and Reconcile runs again.
C15_NeverDeleted ==
  [][ /\ Exists(cm) => Exists(cm')
      /\ Exists(pr) => Exists(pr')
      /\ Exists(mimir) => Exists(mimir') ]_vars

C15_Witness ==
  /\ ~Exists(sloStore)
  /\ pc = "idle"
  /\ log # <<>>
  /\ log[1].err = ErrNotFound
  /\ CountOps(prev.log, {"create"}) = 1
  /\ Exists(cm)
  /\ cm.Labels # "foreign"

\* the invocation is the scenario of C16: remote-push path, forwarding of
\* alerting rules disabled, an Objective with one recording and one alerting
\* increase rule and one alerting burn-rate rule, and the push went through
PushedScenario(c) ==
  /\ c.op = "push"
  /\ c.err = ""
  /\ ~cfg.MimirWriteAlertingRules
  /\ Len(slo.increases.Rules) = 2
  /\ slo.increases.Rules[1].Alert = ""
  /\ slo.increases.Rules[2].Alert # ""
  /\ Len(slo.burnrates.Rules) = 1
  /\ slo.burnrates.Rules[1].Alert # ""

\* C16 (as stated): in that scenario the pushed rule sequence has exactly 2
\* entries, both of recording type.
C16_TwoRecordingEntries ==
  \A i \in DOMAIN log :
    PushedScenario(log[i]) =>
      /\ Len(log[i].payload.Rules) = 2
      /\ \A k \in DOMAIN log[i].payload.Rules : log[i].payload.Rules[k].Alert.Value = ""

\* C16 (amended): in that scenario the pushed rule sequence has exactly 1
\* entry, of recording type: the node of the increase group's recording rule.
C16_OneRecordingEntry ==
  \A i \in DOMAIN log :
    PushedScenario(log[i]) =>
      /\ Len(log[i].payload.Rules) = 1
      /\ NodeOfRecording(log[i].payload.Rules[1], slo.increases.Rules[1])

C16_Witness ==
  /\ log # <<>>
  /\ PushedScenario(log[Len(log)])
  /\ mimir = log[Len(log)].payload

\* the artifact carries a single owner reference, that of the Objective,
\* with controller ownership
OwnedBy(obj, objective) ==
  /\ "OwnerReferences" \in DOMAIN obj
  /\ Len(obj.OwnerReferences) = 1
  /\ obj.OwnerReferences[1].APIVersion = objective.APIVersion
  /\ obj.OwnerReferences[1].Kind = objective.Kind
  /\ obj.OwnerReferences[1].Name = objective.Name
  /\ obj.OwnerReferences[1].UID = objective.UID
  /\ obj.OwnerReferences[1].Controller = TRUE

\* C17 (as stated): the artifact every builder produces carries a single
\* owner reference equal to the Objective's API version, kind, name and UID,
\* with controller ownership.
C17_OwnerReferenceAllBackends ==
  (built.by # "" /\ built.err = "") => OwnedBy(built.obj, kubeObjective)

\* C17 (amended): the artifact of the engine-native and of the config-bundle
\* builder carries that owner reference; the remote rule group carries no
\* owner reference and names the Objective by its group name only.
C17_OwnerReference ==
  (built.by # "" /\ built.err = "") =>
    IF built.by = "makeMimirRuleGroup"
    THEN /\ "OwnerReferences" \notin DOMAIN built.obj
         /\ built.obj.Name = kubeObjective.Name
    ELSE OwnedBy(built.obj, kubeObjective)

C17_Witness ==
  /\ built.by = "makePrometheusRule"
  /\ built.err = ""
  /\ kubeObjective.UID = "uid-2"
  /\ built.obj.OwnerReferences[1].UID = "uid-2"

\* the rules of a group that are forwarded under the given setting
ForwardedRules(rules, writeAlertingRules) ==
  SelectSeq(rules, LAMBDA r : r.Alert = "" \/ writeAlertingRules)

\* the node is the translation of the rule: same kind, name, expression, labels
NodeOfRule(n, r) ==
  /\ n.Expr.Value = r.Expr
  /\ n.Labels = r.Labels
  /\ n.Alert.Value = r.Alert
  /\ n.Record.Value = r.Record

\* C18: the remote rule group's rule sequence is the forwarded increase rules
\* followed by the forwarded burn-rate rules, each in its group's order and
\* nothing else (no generic rule, whatever the generic-rules setting); the
\* group name is the Objective's name and the interval is 30 seconds.
C18_RemoteGroupShape ==
  (built.by = "makeMimirRuleGroup" /\ built.err = "") =>
    LET inc  == ForwardedRules(kubeObjective.increases.Rules, cfg.MimirWriteAlertingRules)
        burn == ForwardedRules(kubeObjective.burnrates.Rules, cfg.MimirWriteAlertingRules)
        out  == built.obj.Rules
    IN  /\ Len(out) = Len(inc) + Len(burn)
        /\ \A i \in DOMAIN inc : NodeOfRule(out[i], inc[i])
        /\ \A j \in DOMAIN burn : NodeOfRule(out[Len(inc) + j], burn[j])
        /\ \A k \in DOMAIN out : \A g \in DOMAIN kubeObjective.generic.Rules :
             ~NodeOfRule(out[k], kubeObjective.generic.Rules[g])
        /\ built.obj.Name = kubeObjective.Name
        /\ built.obj.Interval = Duration(FALSE, <<300, 0, 0>>)

C18_Witness ==
  /\ built.by = "makeMimirRuleGroup"
  /\ built.err = ""
  /\ cfg.GenericRules
  /\ kubeObjective.genericOutcome = "ok"
  /\ cfg.MimirWriteAlertingRules
  /\ Len(built.obj.Rules) = 3
  /\ built.obj.Rules[1].Record.Value = "http_requests:increase4w"

(* --------------------- specification of convergence -------------------- *)
\* no store failure is injected, no other writer acts, the Objective is not
\* deleted; the scheduler runs Reconcile again after every returned error
InitConverge ==
  /\ cfg \in Configs
  /\ sloStore \in Objectives
  /\ cm = NoArtifact
  /\ pr = NoArtifact
  /\ mimir = NoArtifact
  /\ pc = "idle"
  /\ slo = NoArtifact
  /\ kubeObjective = NoArtifact
  /\ newArtifact = NoArtifact
  /\ log = <<>>
  /\ result = NoResult
  /\ prev = [log |-> <<>>, result |-> NoResult, mark |-> MaxFaults + MaxExternalWrites]
  /\ mark = MaxFaults + MaxExternalWrites
  /\ invocations = 0
  /\ faults = MaxFaults
  /\ extWrites = MaxExternalWrites
  /\ promRule = NoRule
  /\ ruleNode = NoNode
  /\ promRules = <<>>
  /\ mimirRules = NoNodes
  /\ built = NotBuilt

NextConverge ==
  \/ Reconcile
  \/ Requeue
  \/ Retry
  \/ reconcileConfigMapGet
  \/ reconcileConfigMapCreate
  \/ reconcileConfigMapUpdate
  \/ reconcileConfigMapStatus
  \/ reconcileMimirRuleGroupStatus
  \/ reconcileMimirRuleGroupPush
  \/ reconcilePrometheusRuleGet
  \/ reconcilePrometheusRuleCreate
  \/ reconcilePrometheusRuleUpdate
  \/ reconcilePrometheusRuleStatus

\* every store call returns, and the work queue hands the key to Reconcile
\* again
SpecConverge == InitConverge /\ [][NextConverge]_vars /\ WF_vars(NextConverge)

\* an invocation has returned success, the stores hold the artifacts built
\* from the Objective and the Objective's status holds a backend tag
Converged ==
  /\ pc = "idle"
  /\ result = Returned("")
  /\ log # <<>>
  /\ log[1].err = ""
  /\ Exists(sloStore)
  /\ sloStore.StatusType \in {TypeTag(f) : f \in Upserters}
  /\ IF cfg.ConfigMapMode
     THEN /\ Exists(cm)
          /\ Content(cm) = makeConfigMap(ConfigMapName(sloStore), sloStore, cfg.GenericRules).obj
     ELSE /\ Exists(pr)
          /\ Content(pr) = makePrometheusRule(sloStore, cfg.GenericRules).obj
          /\ mimir = makeMimirRuleGroup(sloStore, cfg.GenericRules,
                                        cfg.MimirWriteAlertingRules).obj

\* every builder the configured path uses succeeds for the stored Objective
Buildable ==
  /\ Exists(sloStore)
  /\ sloStore.fail = ""
  /\ ~(cfg.GenericRules /\ sloStore.genericOutcome = "error")

\* C19 (as stated): for an unchanged Objective, without store failures and
\* other writers, with Reconcile run again after every error, eventually an
\* invocation returns success with the artifact stored and the status tagged.
C19_Converges == <>Converged

\* C19 (amended): the same, for an Objective whose artifact construction
\* succeeds.
C19_ConvergesWhenBuildable == Buildable => <>Converged

C19_Witness ==
  /\ Converged
  /\ ~cfg.ConfigMapMode
  /\ prev.result.done
  /\ prev.result.err # ""
  /\ \E i \in DOMAIN prev.log :
       /\ prev.log[i].op = "update"
       /\ prev.log[i].token = 0
       /\ prev.log[i].err = ErrInvalid

\* the invocation has pushed the remote rule group successfully
Pushed(l) == \E j \in DOMAIN l : l[j].op = "push" /\ l[j].err = ""

\* C20: with config-bundle mode off, every call on the engine-native rule
\* object comes after a successful remote push of the same invocation, and as
\* long as the invocation has no successful push its steps leave the rule
\* object and the Objective's status as they are; with config-bundle mode on,
\* no step of an invocation calls or changes the remote rule group or the
\* rule object.
C20_RemoteFirst ==
  [][ log' # log =>
        IF cfg.ConfigMapMode
        THEN /\ pr' = pr
             /\ mimir' = mimir
             /\ \A i \in DOMAIN log' : log'[i].target \notin {"pr", "mimir"}
        ELSE /\ \A i \in DOMAIN log' :
                  log'[i].target = "pr" =>
                    \E j \in 1..(i - 1) : log'[j].op = "push" /\ log'[j].err = ""
             /\ ~Pushed(log') => (pr' = pr /\ sloStore' = sloStore) ]_vars

C20_Witness ==
  /\ ~cfg.ConfigMapMode
  /\ pc = "idle"
  /\ Len(log) = 3
  /\ log[2].op = "status"
  /\ log[2].err = ""
  /\ log[3].op = "push"
  /\ log[3].err = ErrInjected
  /\ result = Returned(ErrInjected)
  /\ ~Exists(pr)
====
